---- MODULE Spec2Model ----
(***************************************************************************)
(* The collect / persist / evaluate / alert / render pipeline of the       *)
(* system health monitor (agent.business.monitor_service) and the durable  *)
(* CSV sink with its side buffer (agent.io.csv_sink).                      *)
(*                                                                         *)
(* Files are sequences of lines.  Percent values are integers in tenths    *)
(* of a percent (950 is 95.0).  The faults of the environment are inputs   *)
(* of the actions: an OSError of the CSV write at any point, an OSError of *)
(* the buffer file's removal, an OSError of the alert log append, and a    *)
(* failure of the mail transport at any stage.  The buffer rewrite and the *)
(* report write are taken to complete.                                     *)
(***************************************************************************)
EXTENDS Integers, Sequences, FiniteSets, TLC

VARIABLES
    csvExists,     \* the CSV file exists
    csv,           \* its lines
    bufExists,     \* the buffer file exists
    buffer,        \* its lines
    alertLog,      \* the lines of the alert log
    report,        \* the HTML report file: <<>> when absent, else <<document>>
    pc,            \* position of run_once
    stats,         \* the snapshot of the current run
    saved,         \* what save_csv returned in this run
    alerts,        \* what check_thresholds returned in this run
    credentials,   \* the three mail credentials send_email saw
    smtpLog,       \* the transport stages send_email entered in this run
    mailResult,    \* send_email in this run: "none", "True", "False", "raised"
    error,         \* the exception that ended the run, "none" otherwise
    returned,      \* <<>> or <<the snapshot run_once returned>>
    trace,         \* the steps this run has entered, in order
    logLenAtStart, \* the length of the alert log when the run began
    mailFault,     \* the transport fault send_email met in this run
    calls,         \* history: one record per save_csv call
    runs           \* number of runs started

vars == <<csvExists, csv, bufExists, buffer, alertLog, report, pc, stats, saved,
          alerts, credentials, smtpLog, mailResult, error, returned, trace,
          logLenAtStart, mailFault, calls, runs>>

sinkVars == <<csvExists, csv, bufExists, buffer, calls>>
runVars == <<pc, stats, saved, alerts, credentials, smtpLog, mailResult, error,
             returned, trace, logLenAtStart, mailFault, runs>>

(***************************************************************************)
(* Bounds                                                                  *)
(***************************************************************************)
MaxRuns == 3

\* The number of lines of the buffer file the environment may damage.
MaxDamage == 1

(***************************************************************************)
(* Configuration (agent.config)                                            *)
(***************************************************************************)
CSV_FIELDS ==
    <<"timestamp", "cpu_percent", "memory_percent", "memory_used", "memory_total",
      "disk_percent", "disk_used", "disk_total", "net_bytes_sent",
      "net_bytes_recv", "uptime_seconds">>

\* The thresholds in tenths of a percent, in the table's insertion order.
ALERT_THRESHOLDS ==
    << <<"cpu_percent", 900>>, <<"memory_percent", 850>>, <<"disk_percent", 900>> >>

ThresholdMetrics == {ALERT_THRESHOLDS[i][1] : i \in DOMAIN ALERT_THRESHOLDS}

\* The limit of a metric of the table.
LimitOf(metric) ==
    LET i == CHOOSE j \in DOMAIN ALERT_THRESHOLDS : ALERT_THRESHOLDS[j][1] = metric
    IN  ALERT_THRESHOLDS[i][2]

(***************************************************************************)
(* Snapshots (agent.dto.metrics, agent.business.system_collector)          *)
(***************************************************************************)
\* The keys of a snapshot in the order get_system_stats inserts them.
SnapshotKeys == CSV_FIELDS \o <<"top_processes">>

NoStats == [f \in {} |-> 0]

\* What the telemetry source may report in one run: percent values and the
\* top processes.
SampleProfiles ==
    { [cpu |-> 100, mem |-> 100, disk |-> 100, procs |-> <<>>],
      [cpu |-> 950, mem |-> 500, disk |-> 910,
       procs |-> << [pid |-> 1001, name |-> "python", cpu_percent |-> 352,
                     memory_percent |-> 126] >>] }

\* get_system_stats: every key is present; the timestamp is the time of the run.
get_system_stats(now, p) ==
    [timestamp |-> now, cpu_percent |-> p.cpu, memory_percent |-> p.mem,
     memory_used |-> 8, memory_total |-> 16, disk_percent |-> p.disk,
     disk_used |-> 380, disk_total |-> 512, net_bytes_sent |-> 12,
     net_bytes_recv |-> 23, uptime_seconds |-> 86400, top_processes |-> p.procs]

(***************************************************************************)
(* The CSV sink (agent.io.csv_sink)                                        *)
(***************************************************************************)
\* writer.writeheader(): the field names.
Header == CSV_FIELDS

\* writer.writerow({field: row.get(field, "") ...}): one cell per field of
\* CSV_FIELDS, the value's text, or the empty text for a missing field.
CsvRow(row) ==
    [i \in DOMAIN CSV_FIELDS |->
        IF CSV_FIELDS[i] \in DOMAIN row THEN ToString(row[CSV_FIELDS[i]]) ELSE ""]

\* json.dumps(row): the object's key/value pairs in key order.
json_dumps(row) ==
    LET keys == SelectSeq(SnapshotKeys, LAMBDA k : k \in DOMAIN row)
    IN  [kind |-> "json", pairs |-> [i \in DOMAIN keys |-> <<keys[i], row[keys[i]]>>]]

\* json.loads(line) of a line that holds a JSON object.
json_loads(line) ==
    LET ps == line.pairs
    IN  [k \in {ps[i][1] : i \in DOMAIN ps} |->
            ps[CHOOSE i \in DOMAIN ps : ps[i][1] = k][2]]

\* The environment's faults of one append of `n` lines to a file: none; an
\* OSError before the file is opened (mkdir, open); an OSError after the file
\* was opened and `after` of the lines were written.
WriteFaults(n) ==
    {[kind |-> "none", after |-> 0], [kind |-> "open", after |-> 0]}
        \cup {[kind |-> "write", after |-> j] : j \in 0..(n - 1)}

\* Mutant of LinesToWrite: the header is written on every call.
LinesToWrite_always_header(exists, rows) ==
    <<Header>> \o [i \in DOMAIN rows |-> CsvRow(rows[i])]

\* The lines _write_csv_rows has to append: the header when the file did not
\* exist, then one row per snapshot.
LinesToWrite(exists, rows) ==
    (IF exists THEN <<>> ELSE <<Header>>) \o [i \in DOMAIN rows |-> CsvRow(rows[i])]

\* Mutant of write_csv_rows: the file is opened for writing, not appending.
write_csv_rows_truncating(exists, content, rows, fault) ==
    LET lines == LinesToWrite(exists, rows)
    IN  CASE fault.kind = "none" ->
               [exists |-> TRUE, content |-> lines, raised |-> FALSE]
          [] fault.kind = "open" ->
               [exists |-> exists, content |-> content, raised |-> TRUE]
          [] OTHER ->
               [exists |-> TRUE, content |-> SubSeq(lines, 1, fault.after),
                raised |-> TRUE]

\* _write_csv_rows under a fault: the file afterwards, and whether it raised.
write_csv_rows(exists, content, rows, fault) ==
    LET lines == LinesToWrite(exists, rows)
    IN  CASE fault.kind = "none" ->
               [exists |-> TRUE, content |-> content \o lines, raised |-> FALSE]
          [] fault.kind = "open" ->
               [exists |-> exists, content |-> content, raised |-> TRUE]
          [] OTHER ->
               [exists |-> TRUE, content |-> content \o SubSeq(lines, 1, fault.after),
                raised |-> TRUE]

\* Mutant of load_buffer_raises: a line that is not JSON is passed over.
load_buffer_never_raises(exists, lines) == FALSE

\* _load_buffer raises when a non-blank line is not JSON.
load_buffer_raises(exists, lines) ==
    exists /\ \E i \in DOMAIN lines : lines[i].kind = "garbage"

\* _load_buffer: no file, no rows; else the non-blank lines, decoded, in order.
load_buffer(exists, lines) ==
    IF ~exists THEN <<>>
    ELSE LET nonblank == SelectSeq(lines, LAMBDA l : l.kind # "blank")
         IN  [i \in DOMAIN nonblank |-> json_loads(nonblank[i])]

\* Mutant of persist_buffer: only the current snapshot is written.
persist_buffer_current_only(rows) ==
    <<json_dumps(rows[Len(rows)])>>

\* _persist_buffer: the file rewritten, one JSON record per line.
persist_buffer(rows) ==
    [i \in DOMAIN rows |-> json_dumps(rows[i])]

\* Mutant of save_csv: the OSError of the CSV write is not handled.
save_csv_reraises(s, fault, unlinkFails) ==
    LET rows_to_write == load_buffer(bufExists, buffer) \o <<s>>
        w == write_csv_rows(csvExists, csv, rows_to_write, fault)
    IN  IF w.raised
        THEN [csvExists |-> w.exists, csv |-> w.content, bufExists |-> bufExists,
              buffer |-> buffer, result |-> FALSE, csvWritten |-> FALSE,
              csvFailed |-> TRUE, raised |-> "OSError"]
        ELSE [csvExists |-> w.exists, csv |-> w.content, bufExists |-> FALSE,
              buffer |-> <<>>, result |-> TRUE, csvWritten |-> TRUE,
              csvFailed |-> FALSE, raised |-> "none"]

\* save_csv(stats) under a CSV fault and, when the removal of the buffer file
\* is reached, under `unlinkFails`: the files afterwards, what it returned, and
\* the exception that left it ("none" when it returned); csvWritten: the CSV
\* write completed; csvFailed: the CSV write raised OSError.
save_csv(s, fault, unlinkFails) ==
    IF load_buffer_raises(bufExists, buffer)
    THEN [csvExists |-> csvExists, csv |-> csv, bufExists |-> bufExists,
          buffer |-> buffer, result |-> FALSE, csvWritten |-> FALSE,
          csvFailed |-> FALSE, raised |-> "JSONDecodeError"]
    ELSE
    LET buffered_rows == load_buffer(bufExists, buffer)
        rows_to_write == buffered_rows \o <<s>>
        w == write_csv_rows(csvExists, csv, rows_to_write, fault)
        caught == w.raised \/ (bufExists /\ unlinkFails)
    IN  IF caught
        THEN [csvExists |-> w.exists, csv |-> w.content, bufExists |-> TRUE,
              buffer |-> persist_buffer(rows_to_write), result |-> FALSE,
              csvWritten |-> ~w.raised, csvFailed |-> w.raised, raised |-> "none"]
        ELSE [csvExists |-> w.exists, csv |-> w.content, bufExists |-> FALSE,
              buffer |-> <<>>, result |-> TRUE, csvWritten |-> TRUE,
              csvFailed |-> FALSE, raised |-> "none"]

(***************************************************************************)
(* Threshold rules (agent.validation.thresholds)                           *)
(***************************************************************************)
\* float(stats.get(metric, 0.0))
ValueOf(s, metric) == IF metric \in DOMAIN s THEN s[metric] ELSE 0

\* f"{x:.1f}": the integer part and the one decimal digit.
Format1(x) == [int |-> x \div 10, dec |-> x % 10]

\* f"{metric} at {value:.1f}% exceeds {limit:.1f}%"
AlertMessage(metric, value, limit) ==
    [metric |-> metric, at |-> Format1(value), exceeds |-> Format1(limit)]

\* Mutant of Breaches: a value equal to the limit counts as a breach.
Breaches_or_equal(value, limit) == value >= limit

\* The comparison of one rule.
Breaches(value, limit) == value > limit

\* check_thresholds: one message per breached metric, in the table's order.
check_thresholds(s) ==
    LET breached == SelectSeq(ALERT_THRESHOLDS,
                              LAMBDA rule : Breaches(ValueOf(s, rule[1]), rule[2]))
    IN  [i \in DOMAIN breached |->
            AlertMessage(breached[i][1], ValueOf(s, breached[i][1]), breached[i][2])]

(***************************************************************************)
(* The alert log (agent.io.alert_logger)                                   *)
(***************************************************************************)
\* Mutant of log_alerts: the OSError of the append is swallowed.
log_alerts_swallowing(log, as, now, fault) ==
    LET lines == [i \in DOMAIN as |-> [timestamp |-> now, alert |-> as[i]]]
    IN  CASE fault.kind = "none" -> [log |-> log \o lines, raised |-> FALSE]
          [] fault.kind = "open" -> [log |-> log, raised |-> FALSE]
          [] OTHER -> [log |-> log \o SubSeq(lines, 1, fault.after), raised |-> FALSE]

\* log_alerts under a fault: the log afterwards, and whether it raised.
log_alerts(log, as, now, fault) ==
    LET lines == [i \in DOMAIN as |-> [timestamp |-> now, alert |-> as[i]]]
    IN  CASE fault.kind = "none" -> [log |-> log \o lines, raised |-> FALSE]
          [] fault.kind = "open" -> [log |-> log, raised |-> TRUE]
          [] OTHER -> [log |-> log \o SubSeq(lines, 1, fault.after), raised |-> TRUE]

(***************************************************************************)
(* The mail client (agent.io.email_client)                                 *)
(***************************************************************************)
\* A credential that is not set (os.getenv gives None; "" is falsy as well).
Absent == ""

Credentials == [sender : {Absent, "me"}, password : {Absent, "secret"},
                recipient : {Absent, "you"}]

\* The stages of the transport, in the order send_email enters them:
\* smtplib.SMTP(...), starttls, login, send_message.
SmtpStages == <<"connect", "starttls", "login", "send">>

NoMailFault == [stage |-> "none", exc |-> "none"]

\* What the transport may raise: at each stage an smtplib.SMTPException; at
\* connect and at STARTTLS also an OSError that is no SMTPException (name
\* resolution, refused or timed-out connection, TLS handshake).
MailFaults ==
    {NoMailFault}
        \cup {[stage |-> SmtpStages[i], exc |-> "SMTPException"] : i \in DOMAIN SmtpStages}
        \cup {[stage |-> st, exc |-> "OSError"] : st \in {"connect", "starttls"}}

\* The exceptions the handler of send_email catches: except smtplib.SMTPException.
Catches(exc) == exc = "SMTPException"

\* The stages entered up to and including the one that fails.
StagesUntil(fault) ==
    IF fault.stage = "none" THEN SmtpStages
    ELSE SubSeq(SmtpStages, 1, CHOOSE i \in DOMAIN SmtpStages : SmtpStages[i] = fault.stage)

\* Mutant of send_email: it skips only when all three credentials are absent.
send_email_all_absent(creds, fault) ==
    IF creds.sender = Absent /\ creds.password = Absent /\ creds.recipient = Absent
    THEN [result |-> "False", stages |-> <<>>, raised |-> "none"]
    ELSE IF fault.stage = "none"
    THEN [result |-> "True", stages |-> SmtpStages, raised |-> "none"]
    ELSE IF Catches(fault.exc)
    THEN [result |-> "False", stages |-> StagesUntil(fault), raised |-> "none"]
    ELSE [result |-> "raised", stages |-> StagesUntil(fault), raised |-> fault.exc]

\* send_email: "True", "False", or the exception that leaves it.
send_email(creds, fault) ==
    IF creds.sender = Absent \/ creds.password = Absent \/ creds.recipient = Absent
    THEN [result |-> "False", stages |-> <<>>, raised |-> "none"]
    ELSE IF fault.stage = "none"
    THEN [result |-> "True", stages |-> SmtpStages, raised |-> "none"]
    ELSE IF Catches(fault.exc)
    THEN [result |-> "False", stages |-> StagesUntil(fault), raised |-> "none"]
    ELSE [result |-> "raised", stages |-> StagesUntil(fault), raised |-> fault.exc]

(***************************************************************************)
(* The HTML report (agent.io.html_report)                                  *)
(***************************************************************************)
\* stats.get(key): <<>> stands for None.
Get(s, key) == IF key \in DOMAIN s THEN <<s[key]>> ELSE <<>>

\* The document update_html_report writes.
RenderHtml(s, as) ==
    LET procs == IF "top_processes" \in DOMAIN s THEN s["top_processes"] ELSE <<>>
    IN  [timestamp |-> Get(s, "timestamp"),
         cpu |-> Get(s, "cpu_percent"), memory |-> Get(s, "memory_percent"),
         disk |-> Get(s, "disk_percent"), uptime |-> Get(s, "uptime_seconds"),
         alert_items |->
            IF as = <<>> THEN << [li |-> "No active alerts", alert |-> <<>>] >>
            ELSE [i \in DOMAIN as |-> [li |-> "alert", alert |-> <<as[i]>>]],
         process_rows |->
            IF procs = <<>> THEN << [td |-> "No process data", proc |-> <<>>] >>
            ELSE [i \in DOMAIN procs |-> [td |-> "process", proc |-> <<procs[i]>>]]]

\* Mutant of update_html_report: the document is appended to the file.
update_html_report_appending(old, s, as) == old \o <<RenderHtml(s, as)>>

\* target.write_text(html): the file is replaced.
update_html_report(old, s, as) == <<RenderHtml(s, as)>>

(***************************************************************************)
(* run_once (agent.business.monitor_service), one action per step          *)
(***************************************************************************)
Init ==
    /\ csvExists = FALSE /\ csv = <<>>
    /\ bufExists = FALSE /\ buffer = <<>>
    /\ alertLog = <<>>
    /\ report = <<>>
    /\ pc = "idle"
    /\ stats = NoStats
    /\ saved = "none"
    /\ alerts = <<>>
    /\ credentials = [sender |-> Absent, password |-> Absent, recipient |-> Absent]
    /\ smtpLog = <<>>
    /\ mailResult = "none"
    /\ mailFault = NoMailFault
    /\ error = "none"
    /\ returned = <<>>
    /\ trace = <<>>
    /\ logLenAtStart = 0
    /\ calls = <<>>
    /\ runs = 0

\* run_once begins: stats = get_system_stats().
Collect ==
    /\ pc \in {"idle", "done", "aborted"}
    /\ runs < MaxRuns
    /\ \E p \in SampleProfiles : stats' = get_system_stats(runs + 1, p)
    /\ runs' = runs + 1
    /\ pc' = "save"
    /\ saved' = "none"
    /\ alerts' = <<>>
    /\ credentials' = [sender |-> Absent, password |-> Absent, recipient |-> Absent]
    /\ smtpLog' = <<>>
    /\ mailResult' = "none"
    /\ mailFault' = NoMailFault
    /\ error' = "none"
    /\ returned' = <<>>
    /\ trace' = <<"collect">>
    /\ logLenAtStart' = Len(alertLog)
    /\ UNCHANGED <<sinkVars, alertLog, report>>

\* The number of lines the CSV write of this call has to append.
PendingLines(s) ==
    IF load_buffer_raises(bufExists, buffer) THEN 0
    ELSE Len(LinesToWrite(csvExists, load_buffer(bufExists, buffer) \o <<s>>))

\* save_csv(stats, csv_path, buffer_path), and the print of its outcome.
SaveCsv ==
    /\ pc = "save"
    /\ trace' = Append(trace, "save")
    /\ \E fault \in WriteFaults(PendingLines(stats)), unlinkFails \in BOOLEAN :
          LET r == save_csv(stats, fault, unlinkFails)
          IN  /\ csvExists' = r.csvExists
              /\ csv' = r.csv
              /\ bufExists' = r.bufExists
              /\ buffer' = r.buffer
              /\ error' = r.raised
              /\ calls' = Append(calls, [stats |-> stats,
                                         csvWritten |-> r.csvWritten,
                                         csvFailed |-> r.csvFailed,
                                         result |-> r.result,
                                         raised |-> r.raised,
                                         bufAbsentBefore |-> ~bufExists])
              /\ IF r.raised # "none"
                 THEN /\ pc' = "aborted"
                      /\ UNCHANGED saved
                 ELSE /\ pc' = "check"
                      /\ saved' = IF r.result THEN "True" ELSE "False"
    /\ UNCHANGED <<alertLog, report, stats, alerts, credentials, smtpLog, mailResult,
                   mailFault, returned, logLenAtStart, runs>>

\* alerts = check_thresholds(stats)
CheckThresholds ==
    /\ pc = "check"
    /\ alerts' = check_thresholds(stats)
    /\ pc' = "handle"
    /\ trace' = Append(trace, "check")
    /\ UNCHANGED <<sinkVars, alertLog, report, stats, saved, credentials, smtpLog,
                   mailResult, mailFault, error, returned, logLenAtStart, runs>>

\* Mutant of HandlesAlerts: the alerts are handled even when there are none.
HandlesAlerts_always(as) == TRUE

\* _handle_alerts: the branch taken on the alert list.
HandlesAlerts(as) == as # <<>>

\* _handle_alerts with no alerts: it returns at once.
NoAlerts ==
    /\ pc = "handle"
    /\ ~HandlesAlerts(alerts)
    /\ pc' = "render"
    /\ UNCHANGED <<sinkVars, alertLog, report, stats, saved, alerts, credentials,
                   smtpLog, mailResult, mailFault, error, returned, trace,
                   logLenAtStart, runs>>

\* _handle_alerts with alerts: log_alerts(alerts, alert_log_path).
LogAlerts ==
    /\ pc = "handle"
    /\ HandlesAlerts(alerts)
    /\ trace' = Append(trace, "log")
    /\ \E fault \in WriteFaults(Len(alerts)) :
          LET r == log_alerts(alertLog, alerts, runs, fault)
          IN  /\ alertLog' = r.log
              /\ pc' = IF r.raised THEN "aborted" ELSE "mail"
              /\ error' = IF r.raised THEN "OSError" ELSE "none"
    /\ UNCHANGED <<sinkVars, report, stats, saved, alerts, credentials, smtpLog,
                   mailResult, mailFault, returned, logLenAtStart, runs>>

\* _handle_alerts with alerts, after the log: send_email(alerts, stats).
SendEmail ==
    /\ pc = "mail"
    /\ trace' = Append(trace, "mail")
    /\ \E creds \in Credentials, fault \in MailFaults :
          LET r == send_email(creds, fault)
          IN  /\ credentials' = creds
              /\ mailFault' = IF r.stages = <<>> THEN NoMailFault ELSE fault
              /\ smtpLog' = r.stages
              /\ mailResult' = r.result
              /\ pc' = IF r.raised = "none" THEN "render" ELSE "aborted"
              /\ error' = r.raised
    /\ UNCHANGED <<sinkVars, alertLog, report, stats, saved, alerts, returned,
                   logLenAtStart, runs>>

\* update_html_report(stats, alerts, report_path); return stats.
UpdateHtmlReport ==
    /\ pc = "render"
    /\ report' = update_html_report(report, stats, alerts)
    /\ returned' = <<stats>>
    /\ pc' = "done"
    /\ trace' = Append(trace, "render")
    /\ UNCHANGED <<sinkVars, alertLog, stats, saved, alerts, credentials, smtpLog,
                   mailResult, mailFault, error, logLenAtStart, runs>>

Next ==
    \/ Collect
    \/ SaveCsv
    \/ CheckThresholds
    \/ NoAlerts
    \/ LogAlerts
    \/ SendEmail
    \/ UpdateHtmlReport

Spec == Init /\ [][Next]_vars

(***************************************************************************)
(* The pipeline with a buffer file that is damaged between runs: a line    *)
(* cut or overwritten so that it is no JSON, or a blank line added.        *)
(***************************************************************************)
GarbageLine == [kind |-> "garbage", pairs |-> <<>>]

BlankLine == [kind |-> "blank", pairs |-> <<>>]

Damaged(lines) == {i \in DOMAIN lines : lines[i].kind # "json"}

\* The lines with one more line put in after line i.
InsertAfter(lines, i, line) ==
    SubSeq(lines, 1, i) \o <<line>> \o SubSeq(lines, i + 1, Len(lines))

\* The buffer file as _load_buffer may find it: between two runs one of its
\* records has become garbage, or a blank line has appeared.
CorruptBuffer ==
    /\ pc \in {"idle", "done", "aborted"}
    /\ bufExists
    /\ Cardinality(Damaged(buffer)) < MaxDamage
    /\ \E i \in DOMAIN buffer :
          \/ buffer' = [buffer EXCEPT ![i] = GarbageLine]
          \/ buffer' = InsertAfter(buffer, i, BlankLine)
    /\ UNCHANGED <<csvExists, csv, bufExists, calls, alertLog, report, runVars>>

NextCorrupt == Next \/ CorruptBuffer

SpecCorrupt == Init /\ [][NextCorrupt]_vars

(***************************************************************************)
(* check_thresholds called on its own, as the unit tests call it: the      *)
(* snapshot is any mapping of the threshold metrics, keys may be missing.  *)
(***************************************************************************)
MetricValues == {100, 850, 851, 900, 901, 950}

Missing == -1

PartialSnapshots ==
    { [k \in {m \in ThresholdMetrics : f[m] # Missing} |-> f[k]] :
        f \in [ThresholdMetrics -> MetricValues \cup {Missing}] }

InitThresholds ==
    /\ csvExists = FALSE /\ csv = <<>>
    /\ bufExists = FALSE /\ buffer = <<>>
    /\ alertLog = <<>>
    /\ report = <<>>
    /\ pc = "check"
    /\ stats \in PartialSnapshots
    /\ saved = "none"
    /\ alerts = <<>>
    /\ credentials = [sender |-> Absent, password |-> Absent, recipient |-> Absent]
    /\ smtpLog = <<>>
    /\ mailResult = "none"
    /\ mailFault = NoMailFault
    /\ error = "none"
    /\ returned = <<>>
    /\ trace = <<>>
    /\ logLenAtStart = 0
    /\ calls = <<>>
    /\ runs = 0

NextThresholds == CheckThresholds

SpecThresholds == InitThresholds /\ [][NextThresholds]_vars

(***************************************************************************)
(* Properties                                                              *)
(***************************************************************************)
IsPrefix(s, t) == Len(s) <= Len(t) /\ SubSeq(t, 1, Len(s)) = s

\* The last `k` lines of a file.
LastLines(s, k) == SubSeq(s, Len(s) - k + 1, Len(s))

LastCall == calls[Len(calls)]

\* The calls i..n are consecutive calls whose CSV write failed.
FailedFrom(i) == \A j \in i..Len(calls) : calls[j].csvFailed

C2_ReplayOnSuccess ==
    \A i \in DOMAIN calls :
        (/\ i < Len(calls)
         /\ LastCall.csvWritten
         /\ \A j \in i..(Len(calls) - 1) : calls[j].csvFailed) =>
            LET k == Len(calls) - i + 1
            IN  /\ Len(csv) >= k
                /\ LastLines(csv, k) = [j \in 1..k |-> CsvRow(calls[i + j - 1].stats)]
                /\ ~bufExists
                /\ LastCall.result = TRUE

\* C3: after a save_csv call has returned, the buffer file is empty or absent
\* if and only if the CSV write of the most recent call succeeded.
C3_BufferEmptyIffWritten ==
    (calls # <<>> /\ LastCall.raised = "none") =>
        ((~bufExists \/ buffer = <<>>) <=> LastCall.csvWritten)

\* C4: N snapshots delivered to a CSV path that did not exist give one header
\* line followed by the N data lines in insertion order, and no line after the
\* first is ever a header.
C4_HeaderOnceRowsInOrder ==
    /\ (calls # <<>> /\ \A i \in DOMAIN calls : calls[i].result) =>
            csv = <<CSV_FIELDS>> \o [i \in DOMAIN calls |-> CsvRow(calls[i].stats)]
    /\ \A i \in DOMAIN csv : i > 1 => csv[i] # CSV_FIELDS

C4_Witness ==
    /\ Len(calls) = 3
    /\ \A i \in DOMAIN calls : calls[i].result
    /\ Len(csv) = 4
    /\ csv[1] = CSV_FIELDS

\* C5: the CSV file is append-only: over every step, a failing save_csv call
\* included, the content before is a prefix of the content after and the file
\* is not removed.
C5_CsvAppendOnly ==
    [][(csvExists => csvExists') /\ IsPrefix(csv, csv')]_vars

C5_Witness ==
    /\ Len(calls) = 3
    /\ calls[2].csvFailed
    /\ calls[3].csvWritten
    /\ Len(csv) >= 5

\* The threshold table and the reading of a metric, as the claim states them.
C6Limit(m) ==
    CASE m = "cpu_percent" -> 900
      [] m = "memory_percent" -> 850
      [] m = "disk_percent" -> 900

C6Value(m) == IF m \in DOMAIN stats THEN stats[m] ELSE 0

\* C6: check_thresholds returns a message for a metric of the threshold table
\* (cpu_percent 90, memory_percent 85, disk_percent 90) if and only if the
\* metric's value, 0.0 when the field is missing, is strictly greater than its
\* threshold; with no metric above its threshold the list is empty.
C6_AlertIffAboveThreshold ==
    pc = "handle" =>
        /\ \A m \in {"cpu_percent", "memory_percent", "disk_percent"} :
              (\E i \in DOMAIN alerts : alerts[i].metric = m) <=> C6Value(m) > C6Limit(m)
        /\ \A i \in DOMAIN alerts :
              alerts[i].metric \in {"cpu_percent", "memory_percent", "disk_percent"}
        /\ (\A m \in {"cpu_percent", "memory_percent", "disk_percent"} :
               C6Value(m) <= C6Limit(m)) => alerts = <<>>

C6_Witness ==
    /\ pc = "handle"
    /\ DOMAIN stats = {"cpu_percent", "disk_percent"}
    /\ stats["cpu_percent"] = 900
    /\ stats["disk_percent"] = 901
    /\ Len(alerts) = 1
    /\ alerts[1].metric = "disk_percent"

\* The steps of one run in their order, for a given alert list.
StepOrder(as) ==
    IF as = <<>> THEN <<"collect", "save", "check", "render">>
    ELSE <<"collect", "save", "check", "log", "mail", "render">>

Entered(step) == \E i \in DOMAIN trace : trace[i] = step

\* C7: whenever the mail transport fails during send_email, send_email returns
\* False and no error reaches run_once: the run goes on to render the report
\* and returns the snapshot.
C7_MailFailureNeverAborts ==
    mailFault.stage # "none" =>
        /\ mailResult = "False"
        /\ error = "none"
        /\ pc \in {"render", "done"}
        /\ pc = "done" => (report = <<RenderHtml(stats, alerts)>> /\ returned = <<stats>>)

\* C8: if any one of the three mail credentials is absent, send_email returns
\* False without entering any stage of the mail transport and without raising.
C8_MissingCredentialSkips ==
    (/\ Entered("mail")
     /\ \/ credentials.sender = ""
        \/ credentials.password = ""
        \/ credentials.recipient = "") =>
        /\ mailResult = "False"
        /\ smtpLog = <<>>
        /\ error = "none"
        /\ pc \in {"render", "done"}

C8_Witness ==
    /\ pc = "done"
    /\ Entered("mail")
    /\ credentials.sender # ""
    /\ credentials.password = ""
    /\ credentials.recipient # ""
    /\ mailResult = "False"
    /\ smtpLog = <<>>

\* C9: the steps of one run_once occur in the order collect, save, check,
\* (log, mail,) render, each at most once; the alert log is appended to and
\* send_email is called only when the alert list is non-empty, and with an
\* empty list neither the alert log nor the mail transport is touched.
C9_StepOrder ==
    /\ IsPrefix(trace, StepOrder(alerts))
    /\ (Entered("log") \/ Entered("mail")) => alerts # <<>>
    /\ ~Entered("log") => Len(alertLog) = logLenAtStart
    /\ ~Entered("mail") => (smtpLog = <<>> /\ mailResult = "none")
    /\ pc = "done" => trace = StepOrder(check_thresholds(stats))

C9_Witness ==
    /\ runs = 2
    /\ pc = "done"
    /\ alerts = <<>>
    /\ trace = <<"collect", "save", "check", "render">>
    /\ Len(alertLog) = 2
    /\ logLenAtStart = 2
    /\ smtpLog = <<>>

\* The save_csv call of the current run has been made.
SavedThisRun == calls # <<>> /\ LastCall.stats = stats /\ Entered("save")

C11_CorruptBufferIsFatal ==
    [][/\ (/\ pc = "save"
           /\ bufExists
           /\ \E i \in DOMAIN buffer : buffer[i].kind = "garbage") =>
              /\ pc' = "aborted"
              /\ error' = "JSONDecodeError"
              /\ trace' = <<"collect", "save">>
              /\ UNCHANGED <<csvExists, csv, bufExists, buffer, alertLog, report,
                             alerts, smtpLog, mailResult, returned>>
       /\ (pc = "aborted" /\ error = "JSONDecodeError") =>
              \/ pc' = "save" /\ runs' = runs + 1
              \/ /\ pc' = "aborted"
                 /\ UNCHANGED <<csvExists, csv, alertLog, report, alerts, smtpLog,
                                mailResult, returned, trace>>]_vars

C11_Witness ==
    /\ pc = "aborted"
    /\ error = "JSONDecodeError"
    /\ trace = <<"collect", "save">>
    /\ Len(buffer) = 2
    /\ buffer[1].kind = "json"
    /\ buffer[2].kind = "garbage"
    /\ Len(csv) >= 2
    /\ LastCall.stats = stats
    /\ LastCall.raised = "JSONDecodeError"

\* C12: if the alerts are non-empty and the alert-log append fails (not every
\* alert line gets written), run_once ends with the error: send_email is not
\* called, the report is not rendered in that run, and the CSV and the buffer
\* stay as the save step left them.
C12_AlertLogFailureIsFatal ==
    [][/\ (/\ pc = "handle"
           /\ alerts # <<>>
           /\ Len(alertLog') < Len(alertLog) + Len(alerts)) =>
              /\ pc' = "aborted"
              /\ error' = "OSError"
              /\ smtpLog' = <<>>
              /\ mailResult' = "none"
              /\ returned' = <<>>
              /\ UNCHANGED <<report, csvExists, csv, bufExists, buffer, calls>>
       /\ (pc = "aborted" /\ trace[Len(trace)] = "log") =>
              /\ pc' = "save"
              /\ runs' = runs + 1
              /\ UNCHANGED <<report, csvExists, csv, bufExists, buffer, calls>>]_vars

C12_Witness ==
    /\ pc = "aborted"
    /\ error = "OSError"
    /\ trace = <<"collect", "save", "check", "log">>
    /\ Len(alerts) = 2
    /\ Len(alertLog) = logLenAtStart + 1
    /\ saved = "False"
    /\ bufExists
    /\ report # <<>>
    /\ report # <<RenderHtml(stats, alerts)>>

\* C13: after every run_once that returns, the HTML report file is exactly the
\* rendering of that run's snapshot and alert list: it holds one document, of
\* this run's timestamp, and every alert in it is an alert of this run.
C13_ReportIsLatestRun ==
    pc = "done" =>
        /\ Len(report) = 1
        /\ report[1] = RenderHtml(stats, check_thresholds(stats))
        /\ report[1].timestamp = <<runs>>
        /\ \A i \in DOMAIN report[1].alert_items :
              LET item == report[1].alert_items[i]
              IN  \/ item.alert = <<>> /\ alerts = <<>>
                  \/ /\ item.alert # <<>>
                     /\ i \in DOMAIN alerts
                     /\ item.alert[1] = alerts[i]

C13_Witness ==
    /\ runs = 3
    /\ pc = "done"
    /\ alerts = <<>>
    /\ Len(alertLog) = 4
    /\ report = << RenderHtml(stats, <<>>) >>
    /\ report[1].alert_items[1].li = "No active alerts"
    /\ report[1].process_rows[1].td = "No process data"

\* The data lines of the CSV that are the row of snapshot `s`.
CsvLinesOf(s) == {j \in DOMAIN csv : j > 1 /\ csv[j] = CsvRow(s)}

\* Snapshot `s` is a record of the buffer file.
InBuffer(s) ==
    /\ bufExists
    /\ \E b \in DOMAIN buffer : buffer[b].kind = "json" /\ json_loads(buffer[b]) = s

\* C14: after any sequence of save_csv calls, with the CSV write failing at any
\* point and the buffer-file removal failing after a complete CSV write, each
\* snapshot passed to save_csv is at most once a data row of the CSV, and no
\* snapshot is at the same time a CSV row and a buffer record.
C14_AtMostOnceAndNotBoth ==
    \A i \in DOMAIN calls :
        /\ Cardinality(CsvLinesOf(calls[i].stats)) <= 1
        /\ ~(CsvLinesOf(calls[i].stats) # {} /\ InBuffer(calls[i].stats))

====
